---- MODULE Spec2Model ----
(***************************************************************************)
(* Model of go-lib. The kafka package: the consumer-group wrapper          *)
(* (Consumer.Start / Consumer.Close), the claim dispatcher                 *)
(* (cgHandler.ConsumeClaim), the typed handler adapter (AdaptTypedHandler), *)
(* the constructors NewConsumer / NewConsumerFromEnv and NewProducer,      *)
(* together with the behaviour of the sarama consumer group they are       *)
(* called by. The config_load package: ViperLoader.Load.                   *)
(***************************************************************************)
EXTENDS Integers, Sequences, FiniteSets, TLC

\* ---------------------------------------------------------------- bounds
\* offsets of one partition's log are 1..MaxOffset
MaxOffset == 2
\* number of sessions (generations) the group creates
MaxSessions == 2
\* records the claims buffer in total, over all partitions and sessions
MaxFeeds == 3
\* capacity of the group's Errors() channel
MaxFaults == 1
\* capacity of a claim's Messages() channel
ChanCap == 1
\* longest option list handed to AdaptTypedHandler
MaxOpts == 2

Partitions == {"p0", "p1"}

\* ---------------------------------------------------------------- events
\* An event E is a struct with two integer fields (README: OrderCreated).
zeroEvent == [id |-> 0, amount |-> 0]
\* the event a WithNewEvent constructor returns (README: Amount: 1)
oneEvent == [id |-> 0, amount |-> 1]

\* msg.Value: malformed bytes, an object with only "id", a full object
badValue == [valid |-> FALSE, keys |-> {}, id |-> 0, amount |-> 0]
partValue == [valid |-> TRUE, keys |-> {"id"}, id |-> 1, amount |-> 0]
fullValue == [valid |-> TRUE, keys |-> {"id", "amount"}, id |-> 2, amount |-> 2]
Values == {badValue, partValue, fullValue}
\* the values of the records the consumer is run on
ConsumerValues == {badValue, fullValue}

\* json.Unmarshal(b, dst): invalid input is rejected before dst is touched,
\* a valid object overwrites the fields it names and leaves the others.
jsonUnmarshal(b, dst) ==
    IF ~b.valid
    THEN [err |-> TRUE, evt |-> dst]
    ELSE [err |-> FALSE,
          evt |-> [id |-> IF "id" \in b.keys THEN b.id ELSE dst.id,
                   amount |-> IF "amount" \in b.keys THEN b.amount ELSE dst.amount]]

\* a caller-supplied decoder given to WithDecoder: it demands every field
strictDecode(b, dst) ==
    IF ~b.valid \/ b.keys # {"id", "amount"}
    THEN [err |-> TRUE, evt |-> dst]
    ELSE [err |-> FALSE, evt |-> [id |-> b.id, amount |-> b.amount]]

\* cfg.newEvent()
newEvent(cfg) == IF cfg.newEvent = "one" THEN oneEvent ELSE zeroEvent

\* faulty variant: the error of the decoder is dropped
decode_swallowed(cfg, b, dst) ==
    [err |-> FALSE,
     evt |-> IF cfg.decode = "strict" THEN strictDecode(b, dst).evt
             ELSE jsonUnmarshal(b, dst).evt]

\* cfg.decode(msg.Value, &evt)
decode(cfg, b, dst) ==
    IF cfg.decode = "strict" THEN strictDecode(b, dst) ELSE jsonUnmarshal(b, dst)

\* ---------------------------------------------------------------- options
WithNewEvent == [kind |-> "WithNewEvent", fn |-> "one"]
WithDecoder == [kind |-> "WithDecoder", fn |-> "strict"]
WithJSONDecoder == [kind |-> "WithJSONDecoder", fn |-> "json"]
HandlerOption == {WithNewEvent, WithDecoder, WithJSONDecoder}

\* o(cfg) for one HandlerOption o
ApplyOption(cfg, o) ==
    IF o.kind = "WithNewEvent"
    THEN [cfg EXCEPT !.newEvent = o.fn]
    ELSE [cfg EXCEPT !.decode = o.fn]

RECURSIVE ApplyOptions(_, _)
ApplyOptions(cfg, opts) ==
    IF opts = <<>> THEN cfg
    ELSE ApplyOptions(ApplyOption(cfg, Head(opts)), Tail(opts))

\* the configuration AdaptTypedHandler builds before returning the closure
AdaptTypedHandler(opts) ==
    ApplyOptions([newEvent |-> "zero", decode |-> "json"], opts)

OptionLists == UNION {[1..n -> HandlerOption] : n \in 0..MaxOpts}

\* the handler the consumer is run with: AdaptTypedHandler(th)
ConsumerOptionLists == {<<>>}


\* ---------------------------------------------------------------- strings
\* A Go string is the sequence of its characters.
sTrue == <<"t", "r", "u", "e">>
sFalse == <<"f", "a", "l", "s", "e">>
sYes == <<"y", "e", "s">>
sPLAIN == <<"P", "L", "A", "I", "N">>
sPlainLower == <<"p", "l", "a", "i", "n">>
sPlainPadded == <<" ", "P", "l", "a", "i", "n", " ">>
sSCRAM == <<"S", "C", "R", "A", "M">>
sBlank == <<" ">>
sHost == <<"h", ":", "9">>
sHostList == <<" ", "h", ":", "9", ",", " ">>
sComma == <<",">>
sUser == <<"u">>
sPass == <<"p">>

LowerCase == <<"a", "b", "c", "d", "e", "f", "g", "h", "i", "j", "k", "l", "m",
               "n", "o", "p", "q", "r", "s", "t", "u", "v", "w", "x", "y", "z">>
UpperCase == <<"A", "B", "C", "D", "E", "F", "G", "H", "I", "J", "K", "L", "M",
               "N", "O", "P", "Q", "R", "S", "T", "U", "V", "W", "X", "Y", "Z">>

\* unicode.ToUpper on one character
UpperOf(c) ==
    IF \E i \in 1..Len(LowerCase) : LowerCase[i] = c
    THEN UpperCase[CHOOSE i \in 1..Len(LowerCase) : LowerCase[i] = c]
    ELSE c

\* strings.ToUpper
ToUpper(s) == [i \in 1..Len(s) |-> UpperOf(s[i])]

RECURSIVE TrimLeft(_)
TrimLeft(s) == IF s # <<>> /\ Head(s) = " " THEN TrimLeft(Tail(s)) ELSE s
RECURSIVE TrimRight(_)
TrimRight(s) ==
    IF s # <<>> /\ s[Len(s)] = " " THEN TrimRight(SubSeq(s, 1, Len(s) - 1)) ELSE s
\* strings.TrimSpace
TrimSpace(s) == TrimRight(TrimLeft(s))

\* strings.Split(s, ","): the pieces between the commas
RECURSIVE SplitComma(_, _)
SplitComma(s, piece) ==
    IF s = <<>> THEN <<piece>>
    ELSE IF Head(s) = "," THEN <<piece>> \o SplitComma(Tail(s), <<>>)
    ELSE SplitComma(Tail(s), Append(piece, Head(s)))

RECURSIVE TrimAndDrop(_)
TrimAndDrop(parts) ==
    IF parts = <<>> THEN <<>>
    ELSE LET p == TrimSpace(Head(parts))
         IN (IF p # <<>> THEN <<p>> ELSE <<>>) \o TrimAndDrop(Tail(parts))

\* kafka.go line 301-311
splitAndTrim(s) == TrimAndDrop(SplitComma(s, <<>>))

\* strconv.ParseBool: the spellings it accepts
ParseBool(s) ==
    IF s \in {<<"1">>, <<"t">>, <<"T">>, <<"T", "R", "U", "E">>, sTrue,
              <<"T", "r", "u", "e">>}
    THEN [b |-> TRUE, err |-> FALSE]
    ELSE IF s \in {<<"0">>, <<"f">>, <<"F">>, <<"F", "A", "L", "S", "E">>, sFalse,
                   <<"F", "a", "l", "s", "e">>}
    THEN [b |-> FALSE, err |-> FALSE]
    ELSE [b |-> FALSE, err |-> TRUE]

\* kafka.go line 313-319
parseBool(s) ==
    IF s = <<>> THEN FALSE
    ELSE LET r == ParseBool(s) IN ~r.err /\ r.b

\* ---------------------------------------------------------------- constructors
\* the variables NewConsumerFromEnv reads for SASL and brokers, without prefix
EnvNames == {"BROKERS", "SASL_ENABLE", "SASL_MECHANISM", "SASL_USERNAME",
             "SASL_PASSWORD"}
\* the environments the constructor is run in; an unset variable reads as ""
Environments ==
    {[n \in EnvNames |->
        CASE n = "BROKERS" -> b
          [] n = "SASL_ENABLE" -> en
          [] n = "SASL_MECHANISM" -> m
          [] n = "SASL_USERNAME" -> u
          [] OTHER -> pw] :
        b \in {<<>>, sBlank, sComma, sHostList},
        en \in {<<>>, sTrue, <<"1">>, sFalse, sYes},
        m \in {<<>>, sBlank, sPLAIN, sPlainLower, sPlainPadded, sSCRAM},
        u \in {<<>>, sUser}, pw \in {<<>>, sPass}}

\* os.Getenv(prefix + name)
Getenv(e, n) == e[n]

\* cfg.Net.SASL of a sarama.Config from sarama.NewConfig()
noSASL == [enable |-> FALSE, user |-> <<>>, password |-> <<>>, mechanism |-> ""]

\* line 219-226: WithSASLPlain(username, password) applied to cfg.Net.SASL
WithSASLPlain(username, password) ==
    [enable |-> TRUE, user |-> username, password |-> password,
     mechanism |-> "PLAIN"]

\* sarama.NewConsumerGroup: it fails without a broker address, on a
\* configuration that does not validate (SASL enabled without user or
\* password), or when the cluster cannot be reached (reachable = FALSE)
saramaNewConsumerGroup(brokers, sasl, reachable) ==
    IF \/ brokers = <<>>
       \/ sasl.enable /\ (sasl.user = <<>> \/ sasl.password = <<>>)
       \/ ~reachable
    THEN [group |-> "none", err |-> TRUE]
    ELSE [group |-> "open", err |-> FALSE]

\* what a constructor call leaves behind
ctorIdle ==
    [pc |-> "idle", via |-> "none", err |-> "nil", group |-> "none",
     groupErr |-> FALSE, sasl |-> noSASL, mechRead |-> FALSE]

\* faulty variant: the Consumer is returned together with the error
NewConsumerReturn_partial(g) ==
    [consumer |-> "ok", err |-> IF g.err THEN "group" ELSE "nil", group |-> g.group]

\* line 103-111: nil and the error, or the Consumer around the group
NewConsumerReturn(g) ==
    IF g.err
    THEN [consumer |-> "nil", err |-> "group", group |-> g.group]
    ELSE [consumer |-> "ok", err |-> "nil", group |-> g.group]

\* line 85-112: NewConsumer with the options reduced to what they do to SASL
NewConsumer(brokers, sasl, reachable) ==
    LET g == saramaNewConsumerGroup(brokers, sasl, reachable)
        r == NewConsumerReturn(g)
    IN [consumer |-> r.consumer, err |-> r.err, group |-> r.group,
        groupErr |-> g.err, sasl |-> sasl, mechRead |-> FALSE]

\* faulty variant: every mechanism is taken for PLAIN
MechSupported_any(mech) == mech = mech

\* line 288: mech == "" || mech == "PLAIN"
MechSupported(mech) == mech = <<>> \/ mech = sPLAIN

\* line 243-298: NewConsumerFromEnv without overrides
NewConsumerFromEnv(e, reachable) ==
    LET brokersStr == TrimSpace(Getenv(e, "BROKERS"))
        mech == ToUpper(TrimSpace(Getenv(e, "SASL_MECHANISM")))
        saslOn == parseBool(Getenv(e, "SASL_ENABLE"))
        failed(err, read) ==
            [consumer |-> "nil", err |-> err, group |-> "none",
             groupErr |-> FALSE, sasl |-> noSASL, mechRead |-> read]
    IN IF brokersStr = <<>> THEN failed("missing", FALSE)
       ELSE IF saslOn /\ ~MechSupported(mech) THEN failed("unsupported", TRUE)
       ELSE LET sasl == IF saslOn
                        THEN WithSASLPlain(Getenv(e, "SASL_USERNAME"),
                                           Getenv(e, "SASL_PASSWORD"))
                        ELSE noSASL
                r == NewConsumer(splitAndTrim(brokersStr), sasl, reachable)
            IN [r EXCEPT !.mechRead = saslOn]

\* ---------------------------------------------------------------- producer
\* longest option list handed to NewProducer
MaxProdOpts == 3

\* sarama.RequiredAcks
RequiredAcks == {"NoResponse", "WaitForLocal", "WaitForAll"}

\* producer.go line 87-100, 123-128: the options that write the fields below
WithAcks(acks) == [kind |-> "WithAcks", acks |-> acks, enable |-> FALSE]
WithIdempotent == [kind |-> "WithIdempotent", acks |-> "WaitForAll", enable |-> TRUE]
WithReturnSuccesses(enable) ==
    [kind |-> "WithReturnSuccesses", acks |-> "WaitForLocal", enable |-> enable]
ProducerOption ==
    {WithAcks(a) : a \in RequiredAcks} \cup {WithIdempotent, WithReturnSuccesses(FALSE)}
ProducerOptionLists == UNION {[1..n -> ProducerOption] : n \in 0..MaxProdOpts}

\* sarama.NewConfig().Producer: RequiredAcks, Idempotent, Return.Successes
saramaProducerDefaults ==
    [acks |-> "WaitForLocal", idempotent |-> FALSE, successes |-> FALSE]

\* producer.go line 88-99, 125-127: option(cfg)
ApplyProducerOption(c, o) ==
    CASE o.kind = "WithAcks" -> [c EXCEPT !.acks = o.acks]
      [] o.kind = "WithIdempotent" ->
            [c EXCEPT !.idempotent = TRUE, !.acks = "WaitForAll"]
      [] OTHER -> [c EXCEPT !.successes = o.enable]

prodIdle == [pc |-> "idle", i |-> 0, cfg |-> saramaProducerDefaults, err |-> FALSE]

\* ---------------------------------------------------------------- config loader
\* Load calls made on one loader
MaxLoads == 2
\* largest n given to WithLoadFromConsulMaxAttempt
MaxAttemptOption == 2
\* part_002 line 67: remoteMaxAttempt of a loader built without that option
DefaultMaxAttempt == 5

\* the keys of the configuration, as in the struct tags of the target
kName == <<"n", "a", "m", "e">>
kDbHost == <<"d", "b", ".", "h", "o", "s", "t">>
Keys == {kName, kDbHost}

\* the prefix given to New
sAPP == <<"A", "P", "P">>
\* names of environment variables
eAppName == <<"A", "P", "P", "_", "N", "A", "M", "E">>
eAppDbHost == <<"A", "P", "P", "_", "D", "B", "_", "H", "O", "S", "T">>
eAppDbDotHost == <<"A", "P", "P", "_", "D", "B", ".", "H", "O", "S", "T">>
eDbHost == <<"D", "B", "_", "H", "O", "S", "T">>
EnvVarNames == {eAppName, eAppDbHost, eAppDbDotHost, eDbHost}

\* the process environments the loader is run in: a variable is unset, set to
\* the empty string, or set to a value
LoaderEnvs ==
    {[n \in EnvVarNames |->
        CASE n = eAppName -> a
          [] n = eAppDbHost -> b
          [] n = eAppDbDotHost -> c
          [] OTHER -> d] :
        a \in {"unset", "envName"}, b \in {"unset", "", "envHost"},
        c \in {"unset", "envDot"}, d \in {"unset", "envBare"}}

\* the config file found on the search paths: none, one that does not parse,
\* or the key/value pairs of one that does
ConfigFiles ==
    {[state |-> "absent", doc |-> <<>>], [state |-> "malformed", doc |-> <<>>],
     [state |-> "ok",
      doc |-> [k \in Keys |-> IF k = kName THEN "fileName" ELSE "fileHost"]],
     [state |-> "ok", doc |-> [k \in {kName} |-> "fileName"]]}
\* the YAML document stored under the loader's key in Consul
consulDoc == [k \in Keys |-> IF k = kName THEN "consulName" ELSE "consulHost"]

Worlds == [file : ConfigFiles, env : LoaderEnvs, consul : {consulDoc}]

\* the empty map of a fresh viper instance
emptyMap == <<>>

\* part_002 line 43-49, 63-78: New(prefix, key, url, WithLoadFromConsulMaxAttempt(n));
\* n = 0 stands for a call without the option too, n < 0 leaves the default
New(envPrefix, consulURL, n) ==
    [envPrefix |-> envPrefix, consulURL |-> consulURL,
     remoteMaxAttempt |-> IF n > 0 THEN n ELSE DefaultMaxAttempt,
     automaticEnv |-> FALSE, replaceDots |-> FALSE, viperPrefix |-> <<>>,
     config |-> emptyMap, kvstore |-> emptyMap, remote |-> FALSE]

Loaders ==
    {New(sAPP, url, n) : url \in {<<>>, <<"c", ":", "8">>}, n \in -1..MaxAttemptOption}

\* the arguments Load is called with: what reflect.ValueOf(cfg) reports
argNil == [kind |-> "invalid", isNil |-> TRUE, elem |-> "invalid"]
argNilStructPtr == [kind |-> "ptr", isNil |-> TRUE, elem |-> "invalid"]
argStructPtr == [kind |-> "ptr", isNil |-> FALSE, elem |-> "struct"]
argIntPtr == [kind |-> "ptr", isNil |-> FALSE, elem |-> "int"]
argPtrPtr == [kind |-> "ptr", isNil |-> FALSE, elem |-> "ptr"]
argStruct == [kind |-> "struct", isNil |-> FALSE, elem |-> "invalid"]
LoadArgs == {argNil, argNilStructPtr, argStructPtr, argIntPtr, argPtrPtr, argStruct}

\* faulty variant: what the pointer points to is not looked at
ValidTarget_anyPointer(a) == a.kind = "ptr" /\ ~a.isNil

\* part_002 line 85: cfg is a non-nil pointer to a struct
ValidTarget(a) == a.kind = "ptr" /\ ~a.isNil /\ a.elem = "struct"

\* the struct a caller hands to Load, before Load wrote to it
zeroTarget == [k \in Keys |-> "zero"]

\* faulty variant: no replacer is installed, the key is looked up with its dots
ReplaceDots_none(s) == s

\* part_002 line 111: strings.NewReplacer(".", "_").Replace
ReplaceDots(s) == [i \in 1..Len(s) |-> IF s[i] = "." THEN "_" ELSE s[i]]

\* viper.mergeWithEnvPrefix: the prefix, an underscore, the key, upper-cased
mergeWithEnvPrefix(v, key) ==
    IF v.viperPrefix # <<>> THEN ToUpper(v.viperPrefix \o <<"_">> \o key)
    ELSE ToUpper(key)

\* viper.getEnv: the replacer, then os.LookupEnv; an empty value counts as unset
getEnv(v, e, name) ==
    LET n == IF v.replaceDots THEN ReplaceDots(name) ELSE name
    IN IF n \in DOMAIN e /\ e[n] \notin {"unset", ""}
       THEN [ok |-> TRUE, val |-> e[n]]
       ELSE [ok |-> FALSE, val |-> ""]

\* viper.AllKeys: the keys of the config file and of the key/value store
AllKeys(v) == DOMAIN v.config \cup DOMAIN v.kvstore

\* viper.Get: environment (once AutomaticEnv is on), then config file, then
\* key/value store
Get(v, e, k) ==
    LET fromEnv == getEnv(v, e, mergeWithEnvPrefix(v, k))
    IN IF v.automaticEnv /\ fromEnv.ok THEN fromEnv.val
       ELSE IF k \in DOMAIN v.config THEN v.config[k]
       ELSE v.kvstore[k]

\* part_002 line 91, 101: v.Unmarshal(cfg) writes the fields viper has a key for
Unmarshal(v, e, target) ==
    [k \in Keys |-> IF k \in AllKeys(v) THEN Get(v, e, k) ELSE target[k]]

\* part_002 line 105-114: loadFromFileAndEnv; ReadInConfig reports a missing
\* file with ConfigFileNotFoundError and keeps the old v.config when it fails
loadFromFileAndEnv(v, file) ==
    LET w == [v EXCEPT !.viperPrefix = v.envPrefix, !.replaceDots = TRUE,
                       !.automaticEnv = TRUE]
    IN IF file.state = "absent" THEN [v |-> w, err |-> "ConfigFileNotFoundError"]
       ELSE IF file.state = "malformed" THEN [v |-> w, err |-> "ConfigParseError"]
       ELSE [v |-> [w EXCEPT !.config = file.doc], err |-> "nil"]

\* faulty variant: the error of the read is dropped whatever it is
FileModeError_dropped(readErr) == IF readErr = "nil" THEN "nil" ELSE "nil"

\* part_002 line 97-101: only a missing file ends Load, wrapped in
\* ErrConfigFileNotFound; any other outcome goes on to Unmarshal
FileModeError(readErr) ==
    IF readErr = "ConfigFileNotFoundError" THEN "ErrConfigFileNotFound" ELSE "nil"

callIdle ==
    [pc |-> "idle", arg |-> argNil, attempt |-> 0, sleeps |-> 0,
     consulOk |-> FALSE, err |-> "nil", target |-> zeroTarget, loads |-> 0]

\* ---------------------------------------------------------------- state
VARIABLES
    opts,          \* the HandlerOptions c.handler was built with
    startPc,       \* position of the caller inside Consumer.Start
    closePc,       \* position of the caller inside Consumer.Close
    cancelSet,     \* c.cancel # nil
    ctxCancelled,  \* the cancel function of Start's context has been called
    parentDone,    \* the context given to Start is cancelled
    wg,            \* counter of c.wg
    groupClosed,   \* c.group is closed (its Errors() channel is closed too)
    errs,          \* items buffered in c.group.Errors()
    drainPc,       \* the goroutine of Start that ranges over Errors()
    loopPc,        \* the goroutine of Start that calls Consume in a loop
    loopErr,       \* what the last Consume call returned
    sessions,      \* sessions created so far
    sessCancelled, \* the current session was ended by a rebalance
    assigned,      \* partitions claimed in the current session
    log,           \* per partition: the values of the records produced
    committed,     \* per partition: highest offset marked (0: none)
    stream,        \* per partition: offsets buffered in claim.Messages()
    streamClosed,  \* per partition: claim.Messages() is closed
    fetchPos,      \* per partition: next offset the claim will buffer
    fed,           \* records buffered so far by all claims
    dpc,           \* per partition: position of ConsumeClaim
    cur,           \* per partition: offset of msg in ConsumeClaim
    evt,           \* per partition: evt of the running adapter invocation
    hres,          \* per partition: result of the handler invocation
    invoked,       \* history: offsets handed to the handler this session
    failedSess,    \* history: offsets whose handler failed this session
    markedSess,    \* history: offsets given to MarkMessage this session
    ctorCalls,     \* history: constructor calls of the running invocation
    thCalls,       \* history: typed-handler calls of the running invocation
    inflight,      \* history: handler invocations running per partition
    failedBefore,  \* history: offsets whose latest handler result, before this
                   \* session, was an error
    sessStart,     \* history: offset the session's claim started from
    closeAfterStart, \* history: Close was called after Start returned
    faultSeen,     \* history: the drain received a fault during this session
    consumer,      \* the *Consumer the constructor returned: "nil" or "ok"
    env,           \* the process environment: <prefix>NAME -> value
    ctor,          \* the call of NewConsumer / NewConsumerFromEnv
    popts,         \* the ProducerOptions given to NewProducer
    prod,          \* the call of NewProducer and the sarama.Config it builds
    loader,        \* the ViperLoader: its fields and its viper instance
    world,         \* what the loader reads: config file, environment, Consul
    call           \* the call of ViperLoader.Load

lifeVars == <<startPc, closePc, cancelSet, ctxCancelled, parentDone, wg,
              groupClosed, closeAfterStart>>
drainVars == <<errs, drainPc, faultSeen>>
loopVars == <<loopPc, loopErr>>
sessVars == <<sessions, sessCancelled, assigned, sessStart, failedBefore>>
claimVars == <<stream, streamClosed, fetchPos, fed>>
dispVars == <<dpc, cur, evt, hres, invoked, failedSess, markedSess, ctorCalls,
              thCalls, inflight, committed>>
ctorVars == <<env, ctor>>
prodVars == <<popts, prod>>
loadVars == <<loader, world, call>>
\* the state outside the running consumer
pkgVars == <<consumer, ctorVars, prodVars, loadVars>>
\* the state of the running consumer
consumerVars == <<opts, lifeVars, drainVars, loopVars, sessVars, claimVars,
                  dispVars, log>>
vars == <<consumerVars, pkgVars>>

Offsets == 1..MaxOffset

\* the closure state captured by the handler: cfg
cfg == AdaptTypedHandler(opts)

\* ctx.Err() # nil for the context derived in Start (line 115)
CtxDone == ctxCancelled \/ parentDone

\* sess.Context() is done: rebalance, cancellation of ctx, or group closed
SessDone == sessCancelled \/ CtxDone \/ groupClosed

\* the rest of the package while a constructed consumer runs: no constructor
\* call is going on, no producer and no loader has been built
PkgAtRest ==
    /\ consumer = "ok" /\ env = "none" /\ ctor = "none"
    /\ popts = "none" /\ prod = "none"
    /\ loader = "none" /\ world = "none" /\ call = "none"

\* the consumer NewConsumer returned, before Start
ConsumerInit ==
    /\ opts \in ConsumerOptionLists
    /\ startPc = "idle" /\ closePc = "idle"
    /\ cancelSet = FALSE /\ ctxCancelled = FALSE /\ parentDone = FALSE
    /\ wg = 0 /\ groupClosed = FALSE /\ closeAfterStart = FALSE
    /\ errs = 0 /\ drainPc = "none" /\ faultSeen = FALSE
    /\ loopPc = "none" /\ loopErr = "nil"
    /\ sessions = 0 /\ sessCancelled = FALSE /\ assigned = {}
    /\ log = [p \in Partitions |-> <<>>]
    /\ committed = [p \in Partitions |-> 0]
    /\ stream = [p \in Partitions |-> <<>>]
    /\ streamClosed = [p \in Partitions |-> FALSE]
    /\ fetchPos = [p \in Partitions |-> 1]
    /\ fed = 0
    /\ dpc = [p \in Partitions |-> "none"]
    /\ cur = [p \in Partitions |-> 0]
    /\ evt = [p \in Partitions |-> zeroEvent]
    /\ hres = [p \in Partitions |-> "none"]
    /\ invoked = [p \in Partitions |-> <<>>]
    /\ failedSess = [p \in Partitions |-> {}]
    /\ markedSess = [p \in Partitions |-> {}]
    /\ ctorCalls = [p \in Partitions |-> 0]
    /\ thCalls = [p \in Partitions |-> 0]
    /\ inflight = [p \in Partitions |-> 0]
    /\ failedBefore = [p \in Partitions |-> {}]
    /\ sessStart = [p \in Partitions |-> 1]

Init == ConsumerInit /\ PkgAtRest

\* ---------------------------------------------------------------- Start
\* line 115-116: derive the context, keep its cancel function
StartCtx ==
    /\ consumer = "ok"
    /\ startPc = "idle" /\ closePc \in {"idle", "returned"}
    /\ startPc' = "add1"
    /\ cancelSet' = TRUE
    /\ UNCHANGED <<pkgVars, opts, closePc, ctxCancelled, parentDone, wg, groupClosed,
                   closeAfterStart, drainVars, loopVars, sessVars, claimVars,
                   dispVars, log>>

\* line 117: c.wg.Add(1)
StartAdd1 ==
    /\ startPc = "add1"
    /\ wg' = wg + 1
    /\ startPc' = "add2"
    /\ UNCHANGED <<pkgVars, opts, closePc, cancelSet, ctxCancelled, parentDone,
                   groupClosed, closeAfterStart, drainVars, loopVars, sessVars,
                   claimVars, dispVars, log>>

\* faulty variant: the second task is not registered before it is spawned
StartAdd2_late ==
    /\ startPc = "add2"
    /\ wg' = wg
    /\ startPc' = "goDrain"
    /\ UNCHANGED <<pkgVars, opts, closePc, cancelSet, ctxCancelled, parentDone,
                   groupClosed, closeAfterStart, drainVars, loopVars, sessVars,
                   claimVars, dispVars, log>>

\* line 119: c.wg.Add(1)
StartAdd2 ==
    /\ startPc = "add2"
    /\ wg' = wg + 1
    /\ startPc' = "goDrain"
    /\ UNCHANGED <<pkgVars, opts, closePc, cancelSet, ctxCancelled, parentDone,
                   groupClosed, closeAfterStart, drainVars, loopVars, sessVars,
                   claimVars, dispVars, log>>

\* line 120: go func() { ... range c.group.Errors() ... }()
StartGoDrain ==
    /\ startPc = "goDrain"
    /\ drainPc' = "run"
    /\ startPc' = "goLoop"
    /\ UNCHANGED <<pkgVars, opts, closePc, cancelSet, ctxCancelled, parentDone, wg,
                   groupClosed, closeAfterStart, errs, faultSeen, loopVars,
                   sessVars, claimVars, dispVars, log>>

\* line 129: go func() { ... c.group.Consume ... }(), then Start returns
StartGoLoop ==
    /\ startPc = "goLoop"
    /\ loopPc' = "call"
    /\ startPc' = "done"
    /\ UNCHANGED <<pkgVars, opts, closePc, cancelSet, ctxCancelled, parentDone, wg,
                   groupClosed, closeAfterStart, drainVars, loopErr, sessVars,
                   claimVars, dispVars, log>>

\* the caller cancels the context it gave to Start
ParentCancel ==
    /\ ~parentDone
    /\ parentDone' = TRUE
    /\ UNCHANGED <<pkgVars, opts, startPc, closePc, cancelSet, ctxCancelled, wg,
                   groupClosed, closeAfterStart, drainVars, loopVars, sessVars,
                   claimVars, dispVars, log>>

\* ---------------------------------------------------------------- Close
\* line 146-148: if c.cancel != nil { c.cancel() }
CloseCancel ==
    /\ consumer = "ok"
    /\ closePc = "idle" /\ startPc \in {"idle", "done"}
    /\ ctxCancelled' = (ctxCancelled \/ cancelSet)
    /\ closeAfterStart' = (startPc = "done")
    /\ closePc' = "wait"
    /\ UNCHANGED <<pkgVars, opts, startPc, cancelSet, parentDone, wg, groupClosed,
                   drainVars, loopVars, sessVars, claimVars, dispVars, log>>

\* faulty variant: Close does not wait for the counter to reach zero
WaitDone_nowait(n) == n >= 0

\* c.wg.Wait() lets the caller through when the counter is zero
WaitDone(n) == n = 0

\* line 149: c.wg.Wait()
CloseWait ==
    /\ closePc = "wait"
    /\ WaitDone(wg)
    /\ closePc' = "group"
    /\ UNCHANGED <<pkgVars, opts, startPc, cancelSet, ctxCancelled, parentDone, wg,
                   groupClosed, closeAfterStart, drainVars, loopVars, sessVars,
                   claimVars, dispVars, log>>

\* line 150: return c.group.Close()
CloseGroup ==
    /\ closePc = "group"
    /\ groupClosed' = TRUE
    /\ closePc' = "returned"
    /\ UNCHANGED <<pkgVars, opts, startPc, cancelSet, ctxCancelled, parentDone, wg,
                   closeAfterStart, drainVars, loopVars, sessVars, claimVars,
                   dispVars, log>>

\* ---------------------------------------------------------------- fault drain
\* the group reports a fault on Errors(); a full channel drops it
Fault ==
    /\ loopPc = "consume" /\ ~groupClosed
    /\ errs < MaxFaults
    /\ errs' = errs + 1
    /\ UNCHANGED <<pkgVars, opts, lifeVars, drainPc, faultSeen, loopVars, sessVars,
                   claimVars, dispVars, log>>

\* faulty variant: a fault received from Errors() cancels the consumer's context
DrainRecv_fatal ==
    /\ drainPc = "run"
    /\ errs > 0
    /\ errs' = errs - 1
    /\ faultSeen' = (loopPc = "consume")
    /\ ctxCancelled' = TRUE
    /\ UNCHANGED <<pkgVars, opts, startPc, closePc, cancelSet, parentDone, wg,
                   groupClosed, closeAfterStart, drainPc, loopVars, sessVars,
                   claimVars, dispVars, log>>

\* line 122-125: one iteration of range c.group.Errors(): the fault is logged
DrainRecv ==
    /\ drainPc = "run"
    /\ errs > 0
    /\ errs' = errs - 1
    /\ faultSeen' = (loopPc = "consume")
    /\ UNCHANGED <<pkgVars, opts, lifeVars, drainPc, loopVars, sessVars, claimVars,
                   dispVars, log>>

\* faulty variant: the drain also gives up once the context is cancelled
DrainExit_onCancel ==
    /\ drainPc = "run"
    /\ errs = 0 /\ (groupClosed \/ CtxDone)
    /\ drainPc' = "done"
    /\ wg' = wg - 1
    /\ UNCHANGED <<pkgVars, opts, startPc, closePc, cancelSet, ctxCancelled, parentDone,
                   groupClosed, closeAfterStart, errs, faultSeen, loopVars,
                   sessVars, claimVars, dispVars, log>>

\* line 122, 121: the range ends when Errors() is closed and empty; wg.Done
DrainExit ==
    /\ drainPc = "run"
    /\ errs = 0 /\ groupClosed
    /\ drainPc' = "done"
    /\ wg' = wg - 1
    /\ UNCHANGED <<pkgVars, opts, startPc, closePc, cancelSet, ctxCancelled, parentDone,
                   groupClosed, closeAfterStart, errs, faultSeen, loopVars,
                   sessVars, claimVars, dispVars, log>>


\* ---------------------------------------------------------------- rejoin loop
\* line 132: Consume on a closed group returns ErrClosedConsumerGroup
ConsumeClosed ==
    /\ loopPc = "call" /\ groupClosed
    /\ loopPc' = "ret" /\ loopErr' = "closed"
    /\ UNCHANGED <<pkgVars, opts, lifeVars, drainVars, sessVars, claimVars, dispVars, log>>

\* line 132: Consume fails to join (coordinator error, cancelled context)
ConsumeFail ==
    /\ loopPc = "call" /\ ~groupClosed
    /\ loopPc' = "ret" /\ loopErr' = "other"
    /\ UNCHANGED <<pkgVars, opts, lifeVars, drainVars, sessVars, claimVars, dispVars, log>>

\* line 132: Consume joins the group: a session with the claims A begins and
\* one ConsumeClaim is started per claim, resuming after the committed offset
ConsumeJoin(A) ==
    /\ loopPc = "call" /\ ~groupClosed
    /\ sessions < MaxSessions
    /\ A # {}
    /\ loopPc' = "consume"
    /\ sessions' = sessions + 1
    /\ sessCancelled' = FALSE
    /\ assigned' = A
    /\ sessStart' = [p \in Partitions |-> committed[p] + 1]
    /\ fetchPos' = [p \in Partitions |-> committed[p] + 1]
    /\ dpc' = [p \in Partitions |-> IF p \in A THEN "wait" ELSE "none"]
    /\ UNCHANGED <<pkgVars, opts, lifeVars, drainVars, loopErr, failedBefore, stream,
                   streamClosed, fed, cur, evt, hres, invoked, failedSess,
                   markedSess, ctorCalls, thCalls, inflight, committed, log>>

\* the group rebalances: the session's context is cancelled
Rebalance ==
    /\ loopPc = "consume" /\ ~SessDone
    /\ sessCancelled' = TRUE
    /\ UNCHANGED <<pkgVars, opts, lifeVars, drainVars, loopVars, sessions, assigned,
                   sessStart, failedBefore, claimVars, dispVars, log>>

\* the claim of p buffers its next record in Messages(); a record not yet in
\* the log is produced with some value
Feed(p, v) ==
    /\ loopPc = "consume" /\ p \in assigned
    /\ ~streamClosed[p]
    /\ Len(stream[p]) < ChanCap
    /\ fetchPos[p] <= MaxOffset /\ fed < MaxFeeds
    /\ fed' = fed + 1
    /\ IF fetchPos[p] <= Len(log[p])
       THEN v = log[p][fetchPos[p]] /\ log' = log
       ELSE log' = [log EXCEPT ![p] = Append(@, v)]
    /\ stream' = [stream EXCEPT ![p] = Append(@, fetchPos[p])]
    /\ fetchPos' = [fetchPos EXCEPT ![p] = @ + 1]
    /\ UNCHANGED <<pkgVars, opts, lifeVars, drainVars, loopVars, sessVars, streamClosed,
                   dispVars>>

\* once the session is done the group closes the claim's Messages();
\* what is buffered stays readable
ClaimClose(p) ==
    /\ loopPc = "consume" /\ p \in assigned
    /\ SessDone /\ ~streamClosed[p]
    /\ streamClosed' = [streamClosed EXCEPT ![p] = TRUE]
    /\ UNCHANGED <<pkgVars, opts, lifeVars, drainVars, loopVars, sessVars, stream,
                   fetchPos, fed, dispVars, log>>

\* line 132: Consume returns nil once the session is done and every
\* ConsumeClaim of it has returned
ConsumeReturn ==
    /\ loopPc = "consume"
    /\ SessDone
    /\ \A p \in assigned : dpc[p] = "done"
    /\ loopPc' = "ret" /\ loopErr' = "nil"
    /\ assigned' = {}
    /\ failedBefore' = [p \in Partitions |->
            (failedBefore[p] \ markedSess[p]) \cup failedSess[p]]
    /\ dpc' = [p \in Partitions |-> "none"]
    /\ stream' = [p \in Partitions |-> <<>>]
    /\ streamClosed' = [p \in Partitions |-> FALSE]
    /\ fetchPos' = [p \in Partitions |-> committed[p] + 1]
    /\ invoked' = [p \in Partitions |-> <<>>]
    /\ failedSess' = [p \in Partitions |-> {}]
    /\ markedSess' = [p \in Partitions |-> {}]
    /\ cur' = [p \in Partitions |-> 0]
    /\ hres' = [p \in Partitions |-> "none"]
    /\ ctorCalls' = [p \in Partitions |-> 0]
    /\ thCalls' = [p \in Partitions |-> 0]
    /\ evt' = [p \in Partitions |-> zeroEvent]
    /\ faultSeen' = FALSE
    /\ UNCHANGED <<pkgVars, opts, lifeVars, errs, drainPc, sessions, sessCancelled,
                   sessStart, fed, inflight, committed, log>>

\* faulty variant: the loop does not look at the context after Consume returned
LoopExits_closedOnly(err, done) == err = "closed"

\* faulty variant: the loop gives up on any error Consume returns
LoopExits_anyError(err, done) == err # "nil" \/ done

\* line 133-140: does the loop leave after Consume returned err?
LoopExits(err, done) == err = "closed" \/ done

\* line 132-140 after Consume returned, and line 130 (wg.Done) on exit
LoopCheck ==
    /\ loopPc = "ret"
    /\ IF LoopExits(loopErr, CtxDone)
       THEN loopPc' = "done" /\ wg' = wg - 1
       ELSE loopPc' = "call" /\ wg' = wg
    /\ UNCHANGED <<pkgVars, opts, startPc, closePc, cancelSet, ctxCancelled, parentDone,
                   groupClosed, closeAfterStart, drainVars, loopErr, sessVars,
                   claimVars, dispVars, log>>

\* ---------------------------------------------------------------- ConsumeClaim
\* faulty variant: the handler is started asynchronously, the loop receives on
CanPull_async(p) == dpc[p] \in {"wait", "call", "typed", "ret"} /\ stream[p] # <<>>

\* faulty variant: a lock shared by all dispatchers is held across the handler call
CanPull_locked(p) ==
    /\ dpc[p] = "wait" /\ stream[p] # <<>>
    /\ \A q \in Partitions \ {p} : dpc[q] \notin {"call", "typed", "ret"}

\* line 160: the range loop receives only between two iterations
CanPull(p) == dpc[p] = "wait" /\ stream[p] # <<>>

\* faulty variant: MarkMessage is given the offset before msg
MarkMessage_prev(c, off) == IF off - 1 > c THEN off - 1 ELSE c

\* sess.MarkMessage(msg, ""): the marked position only moves forward
MarkMessage(c, off) == IF off > c THEN off ELSE c

\* faulty variant: the offset is marked whatever the handler returned
ShouldMark_always(res) == res \in {"ok", "err"}

\* line 161: err == nil
ShouldMark(res) == res = "ok"

\* faulty variant: evt is kept between invocations instead of being constructed
EventFor_reused(p) == evt[p]

\* line 64: evt := cfg.newEvent(), the event of the invocation running on p
EventFor(p) == newEvent(cfg)

\* line 160-161: msg is received and h.handler(sess.Context(), msg) is called
Pull(p) ==
    /\ CanPull(p)
    /\ cur' = [cur EXCEPT ![p] = Head(stream[p])]
    /\ stream' = [stream EXCEPT ![p] = Tail(@)]
    /\ dpc' = [dpc EXCEPT ![p] = "call"]
    /\ hres' = [hres EXCEPT ![p] = "none"]
    /\ invoked' = [invoked EXCEPT ![p] = Append(@, Head(stream[p]))]
    /\ ctorCalls' = [ctorCalls EXCEPT ![p] = 0]
    /\ thCalls' = [thCalls EXCEPT ![p] = 0]
    /\ inflight' = [inflight EXCEPT ![p] = @ + 1]
    /\ UNCHANGED <<pkgVars, opts, lifeVars, drainVars, loopVars, sessVars, streamClosed,
                   fetchPos, fed, evt, failedSess, markedSess, committed, log>>

\* line 64-68: evt := cfg.newEvent(); decode msg.Value into evt; on error
\* return it, else call th(ctx, msg, evt)
AdapterDecode(p) ==
    /\ dpc[p] = "call"
    /\ ctorCalls' = [ctorCalls EXCEPT ![p] = @ + 1]
    /\ LET r == decode(cfg, log[p][cur[p]], EventFor(p))
       IN IF r.err
          THEN /\ hres' = [hres EXCEPT ![p] = "err"]
               /\ dpc' = [dpc EXCEPT ![p] = "ret"]
               /\ UNCHANGED <<evt, thCalls>>
          ELSE /\ evt' = [evt EXCEPT ![p] = r.evt]
               /\ thCalls' = [thCalls EXCEPT ![p] = @ + 1]
               /\ dpc' = [dpc EXCEPT ![p] = "typed"]
               /\ UNCHANGED hres
    /\ UNCHANGED <<pkgVars, opts, lifeVars, drainVars, loopVars, sessVars, claimVars, cur,
                   invoked, failedSess, markedSess, inflight, committed, log>>

\* line 68: th(ctx, msg, evt) returns nil (ok) or an error
TypedReturn(p, ok) ==
    /\ dpc[p] = "typed"
    /\ hres' = [hres EXCEPT ![p] = IF ok THEN "ok" ELSE "err"]
    /\ dpc' = [dpc EXCEPT ![p] = "ret"]
    /\ UNCHANGED <<pkgVars, opts, lifeVars, drainVars, loopVars, sessVars, claimVars, cur,
                   evt, invoked, failedSess, markedSess, ctorCalls, thCalls,
                   inflight, committed, log>>

\* line 161-164: the handler returned; MarkMessage only if err == nil
HandlerResult(p) ==
    /\ dpc[p] = "ret"
    /\ inflight' = [inflight EXCEPT ![p] = @ - 1]
    /\ failedSess' = [failedSess EXCEPT ![p] =
            IF hres[p] = "err" THEN @ \cup {cur[p]} ELSE @]
    /\ IF ShouldMark(hres[p])
       THEN /\ markedSess' = [markedSess EXCEPT ![p] = @ \cup {cur[p]}]
            /\ committed' = [committed EXCEPT ![p] = MarkMessage(@, cur[p])]
       ELSE UNCHANGED <<markedSess, committed>>
    /\ dpc' = [dpc EXCEPT ![p] = "wait"]
    /\ UNCHANGED <<pkgVars, opts, lifeVars, drainVars, loopVars, sessVars, claimVars, cur,
                   evt, hres, invoked, ctorCalls, thCalls, log>>

\* line 160, 166: Messages() is closed and empty: the range ends, return nil
ClaimReturn(p) ==
    /\ dpc[p] = "wait"
    /\ stream[p] = <<>> /\ streamClosed[p]
    /\ dpc' = [dpc EXCEPT ![p] = "done"]
    /\ UNCHANGED <<pkgVars, opts, lifeVars, drainVars, loopVars, sessVars, claimVars, cur,
                   evt, hres, invoked, failedSess, markedSess, ctorCalls, thCalls,
                   inflight, committed, log>>

\* ---------------------------------------------------------------- specification
Next ==
    \/ StartCtx \/ StartAdd1 \/ StartAdd2 \/ StartGoDrain \/ StartGoLoop
    \/ ParentCancel
    \/ CloseCancel \/ CloseWait \/ CloseGroup
    \/ Fault \/ DrainRecv \/ DrainExit
    \/ ConsumeClosed \/ ConsumeFail
    \/ \E A \in SUBSET Partitions : ConsumeJoin(A)
    \/ Rebalance
    \/ \E p \in Partitions, v \in ConsumerValues : Feed(p, v)
    \/ \E p \in Partitions : ClaimClose(p)
    \/ ConsumeReturn \/ LoopCheck
    \/ \E p \in Partitions : Pull(p)
    \/ \E p \in Partitions : AdapterDecode(p)
    \/ \E p \in Partitions, ok \in BOOLEAN : TypedReturn(p, ok)
    \/ \E p \in Partitions : HandlerResult(p)
    \/ \E p \in Partitions : ClaimReturn(p)

Spec == Init /\ [][Next]_vars

\* ---------------------------------------------------------------- fairness
\* the steps of the caller inside Close
CloseStep == CloseWait \/ CloseGroup
\* the steps of the fault drain goroutine
DrainStep == DrainRecv \/ DrainExit
\* the steps of the rejoin loop goroutine, the return of Consume included
LoopStep ==
    \/ ConsumeClosed \/ ConsumeFail
    \/ \E A \in SUBSET Partitions : ConsumeJoin(A)
    \/ ConsumeReturn \/ LoopCheck
\* the steps of the ConsumeClaim goroutine of p; the group closing its
\* Messages() once the session is done is one of them
ClaimStep(p) ==
    \/ ClaimClose(p) \/ Pull(p) \/ AdapterDecode(p)
    \/ \E ok \in BOOLEAN : TypedReturn(p, ok)
    \/ HandlerResult(p) \/ ClaimReturn(p)

\* every goroutine, the caller of Close and the group keep being scheduled
Fairness ==
    /\ WF_vars(CloseStep)
    /\ WF_vars(DrainStep)
    /\ WF_vars(LoopStep)
    /\ \A p \in Partitions : WF_vars(ClaimStep(p))

FairSpec == Spec /\ Fairness

\* ---------------------------------------------------------------- tasks
\* the goroutine ranging over Errors() is running
DrainRunning == drainPc = "run"
\* the goroutine calling Consume is running
LoopRunning == loopPc \in {"call", "consume", "ret"}
\* a ConsumeClaim of the current session is running
ClaimRunning(p) == dpc[p] \notin {"none", "done"}
\* some task spawned by Start is running
TaskRunning == DrainRunning \/ LoopRunning \/ \E p \in Partitions : ClaimRunning(p)

\* C1: whenever a Close that was called after Start has returned, no task
\* spawned by Start (fault drain, rejoin loop, claim dispatcher) is running.
C1_CloseReturnsAfterJoin ==
    (closeAfterStart /\ closePc = "returned") => ~TaskRunning

\* C1 witness: a Close called after Start is held at the join barrier: the
\* rejoin loop and every dispatcher have exited, the fault drain still runs.
C1_Witness ==
    /\ closeAfterStart /\ closePc = "wait"
    /\ sessions > 0 /\ loopPc = "done" /\ \A p \in Partitions : ~ClaimRunning(p)
    /\ DrainRunning /\ wg = 1

\* C2: once Close is called after Start while a claim dispatcher is blocked
\* waiting for the next envelope, the dispatchers return and Close completes.
C2_CloseCompletes ==
    (/\ closeAfterStart /\ closePc = "wait"
     /\ \E p \in Partitions : dpc[p] = "wait" /\ stream[p] = <<>>)
        ~> (closePc = "returned" /\ \A p \in Partitions : ~ClaimRunning(p))


\* ---------------------------------------------------------------- dispatch
\* the offsets whose handler invocation has returned in this session
Completed(p) ==
    {invoked[p][i] : i \in 1..Len(invoked[p])}
        \ (IF dpc[p] \in {"call", "typed", "ret"} THEN {cur[p]} ELSE {})

\* a handler invocation for p is in flight
InFlight(p) == dpc[p] \in {"call", "typed"}

\* C3: when the dispatcher of p is about to pull the next envelope and the
\* handler returned success for the previous one, that envelope's offset has
\* been marked and the committed position has reached it.
C3_MarkedBeforeNextPull ==
    \A p \in Partitions :
        (CanPull(p) /\ hres[p] = "ok") =>
            (cur[p] \in markedSess[p] /\ committed[p] >= cur[p])

\* C3 witness: offset 1 succeeded and was marked, offset 2 is ready to be pulled
C3_Witness ==
    \E p \in Partitions :
        /\ CanPull(p) /\ hres[p] = "ok" /\ cur[p] = 1
        /\ Head(stream[p]) = 2 /\ 1 \in markedSess[p]

\* C4: an offset whose handler returned an error is never marked, no offset is
\* handed to the handler twice in one session, the marked offsets are exactly
\* the handled ones that did not fail, and a failure leaves the dispatcher at
\* the head of its loop (it returns only when its stream is closed and empty).
C4_FailedSkippedNotRetried ==
    \A p \in Partitions :
        /\ failedSess[p] \cap markedSess[p] = {}
        /\ \A i, j \in 1..Len(invoked[p]) : i # j => invoked[p][i] # invoked[p][j]
        /\ markedSess[p] = Completed(p) \ failedSess[p]
        /\ (hres[p] = "err" /\ dpc[p] # "ret") => dpc[p] \in {"wait", "done"}
        /\ dpc[p] = "done" => (streamClosed[p] /\ stream[p] = <<>>)

\* C4 witness: offset 1 failed and offset 2, handled after it, is marked
C4_Witness ==
    \E p \in Partitions :
        /\ invoked[p] = <<1, 2>>
        /\ failedSess[p] = {1} /\ markedSess[p] = {2}

C6_NoCrossPartitionSerialization ==
    \A p \in Partitions :
        (dpc[p] = "wait" /\ stream[p] # <<>>) => ENABLED Pull(p)

\* C6 witness: the typed handler is running for both partitions at once
C6_Witness ==
    /\ assigned = Partitions
    /\ \A p \in Partitions : dpc[p] = "typed" /\ inflight[p] = 1

\* C7: while every handler invocation of the session has succeeded, after the
\* dispatcher has consumed N >= 1 envelopes of a partition the committed
\* offset of the partition is the offset of the Nth envelope.
C7_CommittedIsLastConsumed ==
    \A p \in Partitions :
        (/\ dpc[p] \in {"wait", "done"}
         /\ invoked[p] # <<>> /\ failedSess[p] = {})
            => committed[p] = invoked[p][Len(invoked[p])]

\* C7 witness: two envelopes consumed with success, committed offset is 2
C7_Witness ==
    \E p \in Partitions :
        /\ dpc[p] = "wait" /\ Len(invoked[p]) = 2 /\ failedSess[p] = {}
        /\ committed[p] = 2

\* C8: a claim that resumes a partition from its committed position starts at
\* or before every offset whose latest handler result was an error, so that
\* the message is handed to the handler again.
C8_FailedIsRedelivered ==
    \A p \in assigned : \A o \in failedBefore[p] : sessStart[p] <= o


\* ---------------------------------------------------------------- adapter
\* A consumer whose handler was built from any option list, in the middle of
\* a session that claims every partition: Start has returned, Consume has
\* joined the group.
AdapterInit ==
    /\ opts \in OptionLists
    /\ startPc = "done" /\ closePc = "idle"
    /\ cancelSet = TRUE /\ ctxCancelled = FALSE /\ parentDone = FALSE
    /\ wg = 2 /\ groupClosed = FALSE /\ closeAfterStart = FALSE
    /\ errs = 0 /\ drainPc = "run" /\ faultSeen = FALSE
    /\ loopPc = "consume" /\ loopErr = "nil"
    /\ sessions = 1 /\ sessCancelled = FALSE /\ assigned = Partitions
    /\ log = [p \in Partitions |-> <<>>]
    /\ committed = [p \in Partitions |-> 0]
    /\ stream = [p \in Partitions |-> <<>>]
    /\ streamClosed = [p \in Partitions |-> FALSE]
    /\ fetchPos = [p \in Partitions |-> 1]
    /\ fed = 0
    /\ dpc = [p \in Partitions |-> "wait"]
    /\ cur = [p \in Partitions |-> 0]
    /\ evt = [p \in Partitions |-> zeroEvent]
    /\ hres = [p \in Partitions |-> "none"]
    /\ invoked = [p \in Partitions |-> <<>>]
    /\ failedSess = [p \in Partitions |-> {}]
    /\ markedSess = [p \in Partitions |-> {}]
    /\ ctorCalls = [p \in Partitions |-> 0]
    /\ thCalls = [p \in Partitions |-> 0]
    /\ inflight = [p \in Partitions |-> 0]
    /\ failedBefore = [p \in Partitions |-> {}]
    /\ sessStart = [p \in Partitions |-> 1]
    /\ PkgAtRest

\* records of any value arrive and are dispatched through the adapter
AdapterNext ==
    \/ \E p \in Partitions, v \in Values : Feed(p, v)
    \/ \E p \in Partitions : Pull(p)
    \/ \E p \in Partitions : AdapterDecode(p)
    \/ \E p \in Partitions, ok \in BOOLEAN : TypedReturn(p, ok)
    \/ \E p \in Partitions : HandlerResult(p)

AdapterSpec == AdapterInit /\ [][AdapterNext]_vars

\* what the options ask for, read off the option list itself
DecoderOptions(os) ==
    {i \in 1..Len(os) : os[i].kind \in {"WithDecoder", "WithJSONDecoder"}}
LastDecoderIsCustom(os) ==
    /\ DecoderOptions(os) # {}
    /\ \E i \in DecoderOptions(os) :
          /\ \A j \in DecoderOptions(os) : j <= i
          /\ os[i].kind = "WithDecoder"
ConfiguredEvent(os) ==
    IF \E i \in 1..Len(os) : os[i].kind = "WithNewEvent" THEN oneEvent ELSE zeroEvent
\* the outcome of decoding value b into a fresh event under the options os
Expected(os, b) ==
    IF LastDecoderIsCustom(os)
    THEN strictDecode(b, ConfiguredEvent(os))
    ELSE jsonUnmarshal(b, ConfiguredEvent(os))

\* C9: when an envelope's bytes fail to decode, the adapter has returned an
\* error without calling the typed handler, such an offset is never marked,
\* and after the failure the dispatcher is back at the head of its loop.
C9_DecodeFailureSkipped ==
    \A p \in Partitions :
        /\ (dpc[p] = "ret" /\ Expected(opts, log[p][cur[p]]).err)
              => (hres[p] = "err" /\ thCalls[p] = 0)
        /\ \A o \in markedSess[p] : ~Expected(opts, log[p][o]).err
        /\ \A o \in Completed(p) :
              Expected(opts, log[p][o]).err => o \in failedSess[p]
        /\ (hres[p] = "err" /\ dpc[p] # "ret") => dpc[p] \in {"wait", "done"}

\* C9 witness: offset 1 failed to decode and is not marked, offset 2 of the
\* same stream was handled after it and is marked
C9_Witness ==
    \E p \in Partitions :
        /\ invoked[p] = <<1, 2>>
        /\ Expected(opts, log[p][1]).err
        /\ 1 \in failedSess[p] /\ 1 \notin markedSess[p] /\ 2 \in markedSess[p]

\* C10: an invocation of the adapted handler has called the constructor once;
\* if the value does not decode under the configured decoder (the last decoder
\* option, JSON when there is none) it returns the error and the typed
\* handler is not called; otherwise the typed handler is called once, with
\* the value decoded into a fresh event of the configured constructor, and
\* the invocation returns what the typed handler returned.
C10_AdapterInvocation ==
    \A p \in Partitions :
        dpc[p] \in {"typed", "ret"} =>
            LET e == Expected(opts, log[p][cur[p]])
            IN /\ ctorCalls[p] = 1
               /\ IF e.err
                  THEN dpc[p] = "ret" /\ hres[p] = "err" /\ thCalls[p] = 0
                  ELSE /\ thCalls[p] = 1
                       /\ evt[p] = e.evt
                       /\ dpc[p] = "typed" => hres[p] = "none"
                       /\ dpc[p] = "ret" => hres[p] \in {"ok", "err"}

\* C10 witness: with a constructor option, the second invocation on one
\* partition gets a partial value after a full one and the typed handler runs
\* with the constructor's default in the field the value lacks, while the
\* typed handler runs for the other partition too
C10_Witness ==
    \E p \in Partitions, q \in Partitions :
        /\ p # q /\ dpc[q] = "typed"
        /\ ConfiguredEvent(opts) = oneEvent
        /\ dpc[p] = "typed" /\ invoked[p] = <<1, 2>>
        /\ log[p][1] = fullValue /\ log[p][2] = partValue
        /\ evt[p] = [id |-> 1, amount |-> 1]

\* ---------------------------------------------------------------- lifecycle
\* the lifecycle state of the consumer, read off the calls made on it: Close
\* has returned (line 150), Close has been entered (line 145), Start has been
\* entered (line 114), or neither
Lifecycle ==
    IF closePc = "returned" THEN "Closed"
    ELSE IF closePc # "idle" THEN "Closing"
    ELSE IF startPc # "idle" THEN "Running"
    ELSE "Created"

C14_FaultsObservational ==
    [][errs' < errs =>
          /\ Lifecycle' = Lifecycle
          /\ UNCHANGED <<lifeVars, loopVars, sessVars, claimVars>>
          /\ UNCHANGED <<dpc, cur, hres, invoked, markedSess, committed>>]_vars

\* C14 witness: a fault was received during a session that is still going on:
\* the consumer is Running, the loop is inside Consume, and a dispatcher that
\* has marked offset 1 is running the handler for offset 2
C14_Witness ==
    /\ faultSeen /\ Lifecycle = "Running"
    /\ loopPc = "consume" /\ ~SessDone
    /\ \E p \in Partitions :
          dpc[p] = "typed" /\ cur[p] = 2 /\ markedSess[p] = {1}

\* ---------------------------------------------------------------- rejoin
\* C20: when the rejoin loop moves on after Consume has returned, it exits if
\* the error is the closed-group error or the context is cancelled, and in
\* every other case (nil, any other error) its next position is the call of
\* Consume itself: there is no wait or backoff position in between.
C20_RejoinUnlessClosedOrCancelled ==
    [][(loopPc = "ret" /\ loopPc' # "ret") =>
          IF loopErr = "closed" \/ ctxCancelled \/ parentDone
          THEN loopPc' = "done"
          ELSE loopPc' = "call"]_vars

\* C20 witness: Consume returned nil after a rebalance and was called again,
\* the second session ended with the context cancelled and the loop exited
C20_Witness ==
    /\ sessions = 2 /\ loopErr = "nil" /\ loopPc = "done"
    /\ ctxCancelled \/ parentDone

\* ---------------------------------------------------------------- construction
\* A process that has no consumer yet calls one of the two constructors, in
\* any environment, and calls Start on what it got.
CtorInit ==
    /\ ConsumerInit
    /\ consumer = "nil" /\ env \in Environments /\ ctor = ctorIdle
    /\ popts = "none" /\ prod = "none"
    /\ loader = "none" /\ world = "none" /\ call = "none"

\* kafka.go line 243-298: one call of NewConsumerFromEnv; reachable tells
\* whether sarama gets through to the cluster
CallNewConsumerFromEnv(reachable) ==
    /\ ctor.pc = "idle"
    /\ LET r == NewConsumerFromEnv(env, reachable)
       IN /\ consumer' = r.consumer
          /\ ctor' = [pc |-> "returned", via |-> "env", err |-> r.err,
                      group |-> r.group, groupErr |-> r.groupErr,
                      sasl |-> r.sasl, mechRead |-> r.mechRead]
    /\ UNCHANGED <<env, prodVars, loadVars, consumerVars>>

\* kafka.go line 85-112: one call of NewConsumer with a broker list
CallNewConsumer(brokers, reachable) ==
    /\ ctor.pc = "idle"
    /\ LET r == NewConsumer(brokers, noSASL, reachable)
       IN /\ consumer' = r.consumer
          /\ ctor' = [pc |-> "returned", via |-> "NewConsumer", err |-> r.err,
                      group |-> r.group, groupErr |-> r.groupErr,
                      sasl |-> r.sasl, mechRead |-> r.mechRead]
    /\ UNCHANGED <<env, prodVars, loadVars, consumerVars>>

CtorNext ==
    \/ \E reachable \in BOOLEAN : CallNewConsumerFromEnv(reachable)
    \/ \E brokers \in {<<>>, <<sHost>>}, reachable \in BOOLEAN :
          CallNewConsumer(brokers, reachable)
    \/ StartCtx \/ StartAdd1 \/ StartAdd2 \/ StartGoDrain \/ StartGoLoop

CtorSpec == CtorInit /\ [][CtorNext]_vars

\* C12: when a constructor has returned an error (and it has whenever
\* NewConsumerFromEnv found <prefix>BROKERS empty or unset, or the group could
\* not be created), the consumer it returned is nil, no group exists, and
\* neither the fault drain nor the rejoin loop nor a session exists.
C12_ConstructionErrorLeavesNothing ==
    ctor.pc = "returned" =>
        /\ (ctor.via = "env" /\ env["BROKERS"] = <<>>) => ctor.err # "nil"
        /\ ctor.groupErr => ctor.err # "nil"
        /\ ctor.err # "nil" =>
              /\ consumer = "nil" /\ ctor.group = "none"
              /\ startPc = "idle" /\ drainPc = "none" /\ loopPc = "none"
              /\ sessions = 0 /\ wg = 0

\* C12 witness: NewConsumerFromEnv got a broker list from the environment,
\* the group could not be created, and the error came back with no consumer
C12_Witness ==
    /\ ctor.pc = "returned" /\ ctor.via = "env"
    /\ env["BROKERS"] = sHostList /\ ctor.groupErr
    /\ ctor.err = "group" /\ consumer = "nil"

\* the spellings of true, and PLAIN in every mix of upper and lower case
TrueSpellings ==
    {<<"1">>, <<"t">>, <<"T">>, <<"T", "R", "U", "E">>, sTrue,
     <<"T", "r", "u", "e">>}
PlainSpellings ==
    {[i \in 1..5 |-> IF i \in S THEN sPlainLower[i] ELSE sPLAIN[i]] :
        S \in SUBSET (1..5)}
\* a value without the blanks around it
Unpadded(str) == SelectSeq(str, LAMBDA c : c # " ")

\* C13: when NewConsumerFromEnv has returned past the broker check with
\* SASL_ENABLE true: if SASL_MECHANISM, blanks around it aside, is empty or
\* PLAIN in any case, SASL PLAIN is enabled with the user name and password of
\* the environment; if it is anything else the call ended with the
\* unsupported-mechanism error, no consumer and no group. With SASL_ENABLE
\* not true the mechanism was not read and SASL stays off.
C13_OnlyPlainSASL ==
    (ctor.pc = "returned" /\ ctor.via = "env" /\ ctor.err # "missing") =>
        IF env["SASL_ENABLE"] \in TrueSpellings
        THEN IF Unpadded(env["SASL_MECHANISM"]) \in PlainSpellings \cup {<<>>}
             THEN /\ ctor.mechRead /\ ctor.err # "unsupported"
                  /\ ctor.sasl = [enable |-> TRUE,
                                  user |-> env["SASL_USERNAME"],
                                  password |-> env["SASL_PASSWORD"],
                                  mechanism |-> "PLAIN"]
             ELSE /\ ctor.err = "unsupported"
                  /\ consumer = "nil" /\ ctor.group = "none"
        ELSE ~ctor.mechRead /\ ~ctor.sasl.enable

\* C13 witness: SASL_ENABLE=1 with the mechanism " Plain " and credentials
\* gives a consumer with SASL PLAIN on
C13_Witness ==
    /\ ctor.pc = "returned" /\ ctor.via = "env"
    /\ env["SASL_ENABLE"] = <<"1">> /\ env["SASL_MECHANISM"] = sPlainPadded
    /\ consumer = "ok" /\ ctor.sasl = WithSASLPlain(sUser, sPass)

\* ---------------------------------------------------------------- NewProducer
\* NewProducer is called with any list of options.
ProdInit ==
    /\ ConsumerInit
    /\ consumer = "nil" /\ env = "none" /\ ctor = "none"
    /\ popts \in ProducerOptionLists /\ prod = prodIdle
    /\ loader = "none" /\ world = "none" /\ call = "none"

\* producer.go line 22-24: cfg := sarama.NewConfig(); Return.Successes = true
NewProducerConfig ==
    /\ prod.pc = "idle"
    /\ prod' = [prod EXCEPT !.pc = "apply",
                            !.cfg = [saramaProducerDefaults EXCEPT !.successes = TRUE]]
    /\ UNCHANGED <<consumer, ctorVars, popts, loadVars, consumerVars>>

\* producer.go line 25-27: one iteration of the loop over the options
NewProducerOption ==
    /\ prod.pc = "apply" /\ prod.i < Len(popts)
    /\ prod' = [prod EXCEPT !.i = @ + 1,
                            !.cfg = ApplyProducerOption(@, popts[prod.i + 1])]
    /\ UNCHANGED <<consumer, ctorVars, popts, loadVars, consumerVars>>

\* producer.go line 28-32: sarama.NewSyncProducer(brokers, cfg) and the return
NewProducerReturn(ok) ==
    /\ prod.pc = "apply" /\ prod.i = Len(popts)
    /\ prod' = [prod EXCEPT !.pc = "returned", !.err = ~ok]
    /\ UNCHANGED <<consumer, ctorVars, popts, loadVars, consumerVars>>

ProdNext ==
    \/ NewProducerConfig \/ NewProducerOption
    \/ \E ok \in BOOLEAN : NewProducerReturn(ok)

ProdSpec == ProdInit /\ [][ProdNext]_vars

\* C19: once every option of a list that contains WithIdempotent() has been
\* applied, the configuration has Idempotent = true and RequiredAcks =
\* WaitForAll, wherever WithIdempotent stands relative to WithAcks.
C19_IdempotentForcesAcksAll ==
    (/\ prod.pc \in {"apply", "returned"} /\ prod.i = Len(popts)
     /\ \E j \in 1..Len(popts) : popts[j] = WithIdempotent)
        => (prod.cfg.idempotent /\ prod.cfg.acks = "WaitForAll")

\* ---------------------------------------------------------------- ViperLoader.Load
\* A loader built by New is asked to Load, up to MaxLoads times, in a world
\* with or without a config file, with any environment, and a Consul that
\* answers or fails each read.
LoaderInit ==
    /\ ConsumerInit
    /\ consumer = "nil" /\ env = "none" /\ ctor = "none"
    /\ popts = "none" /\ prod = "none"
    /\ loader \in Loaders /\ world \in Worlds /\ call = callIdle

\* part_002 line 80-89, 117-124: Load is entered with cfg = a; an invalid cfg
\* ends it, a Consul URL leads into loadFromConsul (AddRemoteProvider,
\* SetConfigType, attempt := 0), no URL leads to the file mode
LoadCall(a) ==
    /\ call.pc \in {"idle", "returned"} /\ call.loads < MaxLoads
    /\ LET c == [callIdle EXCEPT !.arg = a, !.loads = call.loads + 1]
       IN IF ~ValidTarget(a)
          THEN /\ call' = [c EXCEPT !.pc = "returned", !.err = "ErrInvalidInput"]
               /\ loader' = loader
          ELSE IF loader.consulURL # <<>>
          THEN /\ call' = [c EXCEPT !.pc = "remote"]
               /\ loader' = [loader EXCEPT !.remote = TRUE]
          ELSE /\ call' = [c EXCEPT !.pc = "file"]
               /\ loader' = loader
    /\ UNCHANGED <<consumer, ctorVars, prodVars, world, consumerVars>>

\* faulty variant: the loop goes on until attempt exceeds remoteMaxAttempt
ReadRemote_extra(ok) ==
    /\ call.pc = "remote"
    /\ LET n == call.attempt + 1
           stop == ok \/ n > loader.remoteMaxAttempt
       IN call' = [call EXCEPT !.attempt = n, !.consulOk = ok,
                               !.pc = IF ~stop THEN "sleep"
                                      ELSE IF ok THEN "remoteOk" ELSE "file"]
    /\ loader' = IF ok THEN [loader EXCEPT !.kvstore = world.consul] ELSE loader
    /\ UNCHANGED <<consumer, ctorVars, prodVars, world, consumerVars>>

\* part_002 line 126-129: one v.ReadRemoteConfig(), which succeeds (ok) or
\* fails; attempt++; stop when it succeeded or the attempts are used up
ReadRemote(ok) ==
    /\ call.pc = "remote"
    /\ LET n == call.attempt + 1
           stop == ok \/ n >= loader.remoteMaxAttempt
       IN call' = [call EXCEPT !.attempt = n, !.consulOk = ok,
                               !.pc = IF ~stop THEN "sleep"
                                      ELSE IF ok THEN "remoteOk" ELSE "file"]
    /\ loader' = IF ok THEN [loader EXCEPT !.kvstore = world.consul] ELSE loader
    /\ UNCHANGED <<consumer, ctorVars, prodVars, world, consumerVars>>

\* part_002 line 129-131: time.Sleep(500ms) before the next attempt
RetrySleep ==
    /\ call.pc = "sleep"
    /\ call' = [call EXCEPT !.pc = "remote", !.sleeps = @ + 1]
    /\ UNCHANGED <<consumer, ctorVars, prodVars, loader, world, consumerVars>>

\* part_002 line 90-93: loadFromConsul returned nil: Unmarshal and return
LoadFromRemote ==
    /\ call.pc = "remoteOk"
    /\ call' = [call EXCEPT !.pc = "returned", !.err = "nil",
                            !.target = Unmarshal(loader, world.env, @)]
    /\ UNCHANGED <<consumer, ctorVars, prodVars, loader, world, consumerVars>>

\* part_002 line 95-102: the file mode: loadFromFileAndEnv, then either the
\* not-found error or Unmarshal
LoadFromFile ==
    /\ call.pc = "file"
    /\ LET r == loadFromFileAndEnv(loader, world.file)
           e == FileModeError(r.err)
       IN /\ loader' = r.v
          /\ call' = IF e # "nil"
                     THEN [call EXCEPT !.pc = "returned", !.err = e]
                     ELSE [call EXCEPT !.pc = "returned", !.err = "nil",
                                       !.target = Unmarshal(r.v, world.env, @)]
    /\ UNCHANGED <<consumer, ctorVars, prodVars, world, consumerVars>>

LoaderNext ==
    \/ \E a \in LoadArgs : LoadCall(a)
    \/ \E ok \in BOOLEAN : ReadRemote(ok)
    \/ RetrySleep \/ LoadFromRemote \/ LoadFromFile

LoaderSpec == LoaderInit /\ [][LoaderNext]_vars

\* C15: a step that enters Load with an argument other than a non-nil pointer
\* to a struct is the whole call: it returns ErrInvalidInput, no Consul read
\* and no file read has been made, and loader, world and target are unchanged.
C15_InvalidInputRejected ==
    [][(call'.loads = call.loads + 1 /\ call'.arg # argStructPtr) =>
          /\ call'.pc = "returned" /\ call'.err = "ErrInvalidInput"
          /\ call'.attempt = 0 /\ call'.target = zeroTarget
          /\ loader' = loader /\ world' = world]_vars

\* C15 witness: a loader that has loaded from Consul before is handed a
\* pointer to an int and returns ErrInvalidInput
C15_Witness ==
    /\ call.pc = "returned" /\ call.err = "ErrInvalidInput"
    /\ call.arg = argIntPtr /\ call.loads = 2
    /\ loader.consulURL # <<>> /\ loader.kvstore = consulDoc

\* C16: a Load that did not get its configuration from Consul (no URL, or
\* every read failed) and finds no config file returns ErrConfigFileNotFound
\* (wrapped) and leaves the target as it was.
C16_FileNotFound ==
    (/\ call.pc = "returned" /\ call.arg = argStructPtr
     /\ ~call.consulOk /\ world.file.state = "absent")
        => (call.err = "ErrConfigFileNotFound" /\ call.target = zeroTarget)

\* C16 witness: every Consul read of the call failed, no file exists, and the
\* call returned the not-found error
C16_Witness ==
    /\ call.pc = "returned" /\ call.arg = argStructPtr
    /\ loader.consulURL # <<>> /\ call.attempt = loader.remoteMaxAttempt
    /\ ~call.consulOk /\ world.file.state = "absent"
    /\ call.err = "ErrConfigFileNotFound"

\* the environment variable that belongs to a key: <PREFIX>_<KEY, . as _>
EnvNameOf(k) == IF k = kName THEN eAppName ELSE eAppDbHost
\* the variable of key k holds a value
EnvHolds(k) == world.env[EnvNameOf(k)] \notin {"unset", ""}

\* C17: a Load that did not get its configuration from Consul (no URL, or
\* every read failed) succeeds when a config file exists, and every key of
\* the file has the value of its environment variable if that holds one and
\* the value of the file otherwise.
C17_FileModeEnvOverrides ==
    (/\ call.pc = "returned" /\ call.arg = argStructPtr
     /\ ~call.consulOk /\ world.file.state # "absent")
        => /\ call.err = "nil"
           /\ world.file.state = "ok" =>
                \A k \in DOMAIN world.file.doc :
                    call.target[k] = IF EnvHolds(k)
                                     THEN world.env[EnvNameOf(k)]
                                     ELSE world.file.doc[k]

\* C17 witness: every Consul read failed, the file has both keys, the
\* variable of db.host is set and that of name is not (variables with other
\* names are set too): name comes from the file, db.host from the environment
C17_Witness ==
    /\ call.pc = "returned" /\ call.arg = argStructPtr
    /\ loader.consulURL # <<>> /\ call.attempt = loader.remoteMaxAttempt
    /\ ~call.consulOk /\ DOMAIN world.file.doc = Keys
    /\ world.env[eAppDbDotHost] = "envDot" /\ world.env[eDbHost] = "envBare"
    /\ call.target = [k \in Keys |-> IF k = kName THEN "fileName" ELSE "envHost"]

\* C18: a Load whose Consul read succeeded returns without error, and no
\* field of its result holds the value of an environment variable, also when
\* an earlier Load of the same loader fell back to the file mode.
C18_ConsulResultWithoutEnv ==
    (call.pc = "returned" /\ call.arg = argStructPtr /\ call.consulOk)
        => /\ call.err = "nil"
           /\ \A k \in Keys, n \in EnvVarNames : call.target[k] # world.env[n]

\* ---------------------------------------------------------------- Close order
\* C21: Close takes its steps in this order: it cancels the context (when
\* Start has stored a cancel function), it passes the barrier only when the
\* fault drain, the rejoin loop and every claim dispatcher have exited, and
\* the group is released only by a Close that has passed the barrier: at the
\* step that releases the group the context is cancelled and no task spawned
\* by Start is running.
C21_CloseOrder ==
    [][/\ (closePc = "idle" /\ closePc' # "idle") =>
              /\ closePc' = "wait" /\ groupClosed' = groupClosed
              /\ cancelSet => ctxCancelled'
       /\ (closePc = "wait" /\ closePc' # "wait") =>
              /\ closePc' = "group" /\ groupClosed' = groupClosed
              /\ wg = 0 /\ ~TaskRunning
       /\ (~groupClosed /\ groupClosed') =>
              /\ closePc = "group" /\ closePc' = "returned"
              /\ cancelSet => ctxCancelled
              /\ ~TaskRunning /\ ~TaskRunning']_vars

\* C21 witness: Close has cancelled the context of a started consumer and
\* stands at the barrier with the group not released, while the rejoin loop
\* is still inside Consume and a dispatcher is still running the handler
C21_Witness ==
    /\ closeAfterStart /\ closePc = "wait" /\ ctxCancelled /\ ~groupClosed
    /\ wg = 2 /\ DrainRunning /\ loopPc = "consume"
    /\ \E p \in Partitions : dpc[p] = "typed"

\* ---------------------------------------------------------------- idle topic
\* The consumer on topics to which nothing is produced: sessions begin and
\* end, faults are reported, the context is cancelled, Close is called, and
\* every dispatcher only waits on its empty claim.Messages().
IdleNext ==
    \/ StartCtx \/ StartAdd1 \/ StartAdd2 \/ StartGoDrain \/ StartGoLoop
    \/ ParentCancel
    \/ CloseCancel \/ CloseWait \/ CloseGroup
    \/ Fault \/ DrainRecv \/ DrainExit
    \/ ConsumeClosed \/ ConsumeFail
    \/ \E A \in SUBSET Partitions : ConsumeJoin(A)
    \/ Rebalance
    \/ \E p \in Partitions : ClaimClose(p)
    \/ ConsumeReturn \/ LoopCheck
    \/ \E p \in Partitions : ClaimReturn(p)

IdleSpec == Init /\ [][IdleNext]_vars

\* every goroutine, the caller of Close and the group keep being scheduled
IdleFairness ==
    /\ WF_vars(CloseStep)
    /\ WF_vars(DrainStep)
    /\ WF_vars(LoopStep)
    /\ \A p \in Partitions : WF_vars(ClaimClose(p) \/ ClaimReturn(p))

IdleFairSpec == IdleSpec /\ IdleFairness

\* C22: the fault drain leaves its loop only when the group is closed (which
\* closes Errors()) and the stream is empty, whatever has happened to the
\* context; items leave the stream only by the drain receiving them, one at a
\* time; a running drain on a closed group terminates, and a full stream on
\* which the drain runs gets room again.
C22_DrainEndsOnGroupClose ==
    /\ [][(drainPc = "run" /\ drainPc' # "run") =>
              (drainPc' = "done" /\ groupClosed /\ errs = 0)]_vars
    /\ [][errs' < errs => (drainPc = "run" /\ errs' = errs - 1)]_vars
    /\ (drainPc = "run" /\ groupClosed) ~> (drainPc = "done")
    /\ (drainPc = "run" /\ errs = MaxFaults) ~> (errs < MaxFaults)

\* C22 witness: the parent context is cancelled, Close has not been called,
\* the session is winding down, and the drain, still running, has emptied
\* the stream of a fault reported in this session
C22_Witness ==
    /\ parentDone /\ closePc = "idle" /\ ~groupClosed
    /\ loopPc = "consume" /\ faultSeen /\ errs = 0 /\ DrainRunning

\* ---------------------------------------------------------------- dispatcher and cancellation
\* line 160-166: the steps ConsumeClaim itself takes: receive and call the
\* handler, the handler's steps, mark, leave the range once Messages() is
\* closed and empty
DispatchStep(p) ==
    \/ Pull(p) \/ AdapterDecode(p)
    \/ \E ok \in BOOLEAN : TypedReturn(p, ok)
    \/ HandlerResult(p) \/ ClaimReturn(p)

\* every dispatcher and every handler keeps being scheduled; when, and
\* whether, the group closes a claim's Messages() is left open
DispatchFairness == \A p \in Partitions : WF_vars(DispatchStep(p))

DispatchFairSpec == Spec /\ DispatchFairness

C24_NoPullAfterCancel ==
    [][CtxDone =>
          \A p \in Partitions : Len(invoked'[p]) <= Len(invoked[p])]_vars

\* ---------------------------------------------------------------- loadFromConsul
\* part_002 line 125-133: the steps of the loop of loadFromConsul
RemoteStep == (\E ok \in BOOLEAN : ReadRemote(ok)) \/ RetrySleep

\* the goroutine that called Load keeps running inside the loop
LoaderFairSpec == LoaderSpec /\ WF_vars(RemoteStep)

\* the loop of loadFromConsul has been left in the running call
RemoteExited == call.pc \in {"remoteOk", "file", "returned"}

\* C25: remoteMaxAttempt is n when WithLoadFromConsulMaxAttempt(n) is given
\* with n > 0 and 5 otherwise. In a Load of a loader with a Consul URL the
\* number of reads never exceeds remoteMaxAttempt; a sleep follows a failed
\* read that was not the last; when the loop has been left at least one read
\* was made, the sleeps are one fewer than the reads, and either the last
\* read succeeded (loadFromConsul returns nil) or exactly remoteMaxAttempt
\* reads were made and all failed. The loop is always left.
C25_BoundedConsulAttempts ==
    /\ [](/\ \A n \in -1..MaxAttemptOption :
                New(sAPP, <<"c">>, n).remoteMaxAttempt =
                    IF n >= 1 THEN n ELSE DefaultMaxAttempt
          /\ (call.arg = argStructPtr /\ loader.consulURL # <<>>
                  /\ call.pc # "idle") =>
                /\ call.attempt <= loader.remoteMaxAttempt
                /\ call.pc = "remote" =>
                      /\ call.sleeps = call.attempt /\ ~call.consulOk
                      /\ call.attempt < loader.remoteMaxAttempt
                /\ call.pc = "sleep" =>
                      /\ call.attempt >= 1 /\ call.sleeps = call.attempt - 1
                      /\ ~call.consulOk
                      /\ call.attempt < loader.remoteMaxAttempt
                /\ RemoteExited =>
                      /\ call.attempt >= 1 /\ call.sleeps = call.attempt - 1
                      /\ call.consulOk \/ call.attempt = loader.remoteMaxAttempt
                      /\ call.pc = "remoteOk" => call.consulOk
                      /\ call.pc = "file" => ~call.consulOk)
    /\ (call.pc \in {"remote", "sleep"}) ~> RemoteExited

\* C25 witness: a loader built without the option made two failed reads with
\* a sleep after each, and left the loop at the third read, which succeeded
C25_Witness ==
    /\ loader.remoteMaxAttempt = DefaultMaxAttempt /\ loader.consulURL # <<>>
    /\ call.pc = "remoteOk" /\ call.consulOk
    /\ call.attempt = 3 /\ call.sleeps = 2

\* ---------------------------------------------------------------- join barrier
\* line 117, 119: the c.wg.Add(1) calls Start has made so far
Registered ==
    IF startPc \in {"goDrain", "goLoop", "done"} THEN 2
    ELSE IF startPc = "add2" THEN 1 ELSE 0
\* line 121, 130: the deferred c.wg.Done() calls made so far
Exited ==
    (IF drainPc = "done" THEN 1 ELSE 0) + (IF loopPc = "done" THEN 1 ELSE 0)

\* the barrier counts the registered tasks that have not exited; a task
\* exists only after both registrations; when Start has returned both tasks
\* have been spawned; a Close called after Start is past the barrier only
\* when both have exited
BarrierCoversTasks ==
    /\ wg >= 0
    /\ wg = Registered - Exited
    /\ (drainPc # "none" \/ loopPc # "none") => Registered = 2
    /\ startPc = "done" => (drainPc # "none" /\ loopPc # "none")
    /\ (closeAfterStart /\ closePc \in {"group", "returned"}) =>
          (drainPc = "done" /\ loopPc = "done")

CancelledInOrAfterConsume == loopPc \in {"consume", "ret"} /\ CtxDone

\* C27: a cancelled context stays cancelled; the first step of the rejoin
\* loop is a call of Consume, whatever the context; and once Consume has been
\* invoked or has returned with the context cancelled the loop never goes
\* back to the call: when it moves on from the return it exits. A call made
\* after the cancellation is therefore followed by no other call.
C27_AtMostOneCallAfterCancel ==
    [][/\ CtxDone => CtxDone'
       /\ (loopPc = "none" /\ loopPc' # "none") => loopPc' = "call"
       /\ CancelledInOrAfterConsume => loopPc' # "call"
       /\ (CancelledInOrAfterConsume /\ loopPc = "ret" /\ loopPc' # "ret")
              => loopPc' = "done"]_vars

\* C27 witness: the parent context is cancelled, Close has not been called,
\* and the rejoin loop has exited after a Consume that failed without ever
\* having joined a session
C27_Witness ==
    /\ parentDone /\ ~ctxCancelled /\ closePc = "idle" /\ startPc = "done"
    /\ loopPc = "done" /\ loopErr = "other" /\ sessions = 0 /\ wg = 1

\* ---------------------------------------------------------------- parent cancellation
\* C28: as long as Close has not been called on a started consumer, the
\* fault drain runs, the group is not released and the consumer is Running,
\* also after the parent context has been cancelled; with the parent context
\* cancelled the rejoin loop exits when it moves on from a return of Consume,
\* and it does reach its exit.
C28_ParentCancelStopsLoopOnly ==
    /\ []((startPc = "done" /\ closePc = "idle") =>
              (DrainRunning /\ ~groupClosed /\ Lifecycle = "Running" /\ wg >= 1))
    /\ [][(parentDone /\ loopPc = "ret" /\ loopPc' # "ret") => loopPc' = "done"]_vars
    /\ (parentDone /\ LoopRunning) ~> (loopPc = "done")

\* C28 witness: only the parent context was cancelled: the session that was
\* running has ended, Consume has returned nil and the rejoin loop has
\* exited, while the fault drain still runs on the unreleased group
C28_Witness ==
    /\ parentDone /\ ~ctxCancelled /\ closePc = "idle"
    /\ loopPc = "done" /\ loopErr = "nil" /\ sessions >= 1
    /\ DrainRunning /\ ~groupClosed /\ wg = 1 /\ Lifecycle = "Running"

====
